---- MODULE Spec2Model ----
(***************************************************************************)
(* Model of rdpy/mitm/virtual_channel/device_redirection.py: the passive   *)
(* device redirection observers of the RDP man-in-the-middle.  Two         *)
(* observers (one per leg) relay RDPDR messages to each other, match I/O   *)
(* responses to I/O requests by completion id, track files opened for      *)
(* reading and rebuild their contents from the read responses; a file is   *)
(* written under ./saved_files/ when its close response is seen.           *)
(*                                                                         *)
(* One call of onPDUReceived is one step.  An exception raised inside the  *)
(* call (a KeyError of a dict lookup, an OSError of the disk write) leaves *)
(* the call at that statement: the assignments made before it stay, the    *)
(* statements after it, the hand-over to the peer included, do not run.    *)
(* Characters are code points, strings and byte strings are sequences.     *)
(* In one behaviour the I/O requests arrive on one leg, either of the two  *)
(* (in RDPDR the server is the requester); responses and the other         *)
(* messages arrive on both.                                                *)
(***************************************************************************)
EXTENDS Integers, Sequences, FiniteSets, TLC

\* ------------------------------------------------------------------ bounds
MaxCompId == 2
MaxFileId == 1
MaxOffset == 1
MaxPending == 1
MaxPathLen == 4
MaxReads == 2
MaxChunk == 1

\* --------------------------------------------------------- program constants
Nul == 0
Dot == 46
Slash == 47
Backslash == 92
LetterA == 97
StatusSeverityError == 3
SeverityShift == 30
\* ioStatus is a 32-bit value, more than TLC's integers hold: the model
\* carries its upper 16 bits (the lower 16 are never read by this code).
DroppedStatusBits == 16
StatusSuccessHigh == 0
StatusUnsuccessfulHigh == 49152

Observers == {"client", "server"}

\* The peer of an observer: the observer of the other leg.
Peer(o) == IF o = "client" THEN "server" ELSE "client"

\* FileAccess and CreateOption masks are modelled as sets of flag names, the
\* bitwise and of two masks as the intersection.
ReadAccessMask == {"GENERIC_READ", "FILE_READ_DATA"}
NonDirectoryMask == {"FILE_NON_DIRECTORY_FILE"}

\* "./saved_files/"
SavedFilesPrefix == <<46, 47, 115, 97, 118, 101, 100, 95, 102, 105, 108, 101, 115, 47>>

Max(a, b) == IF a >= b THEN a ELSE b
Min(a, b) == IF a <= b THEN a ELSE b

\* ---------------------------------------------------------------- strings

\* Whether sequence pat occurs in s at position i (1-based).
OccursAt(s, pat, i) ==
    /\ i + Len(pat) - 1 <= Len(s)
    /\ \A k \in 1..Len(pat) : s[i + k - 1] = pat[k]

\* str.replace(old, new, 1): only the first occurrence is replaced.
RECURSIVE StrReplaceFirstFrom(_, _, _, _)
StrReplaceFirstFrom(s, old, new, i) ==
    IF i > Len(s) THEN <<>>
    ELSE IF OccursAt(s, old, i)
         THEN new \o SubSeq(s, i + Len(old), Len(s))
         ELSE <<s[i]>> \o StrReplaceFirstFrom(s, old, new, i + 1)

StrReplaceFirst(s, old, new) == StrReplaceFirstFrom(s, old, new, 1)

\* str.replace(old, new): every non-overlapping occurrence of old, found left
\* to right, is replaced by new.
RECURSIVE StrReplaceFrom(_, _, _, _)
StrReplaceFrom(s, old, new, i) ==
    IF i > Len(s) THEN <<>>
    ELSE IF OccursAt(s, old, i)
         THEN new \o StrReplaceFrom(s, old, new, i + Len(old))
         ELSE <<s[i]>> \o StrReplaceFrom(s, old, new, i + 1)

StrReplace(s, old, new) == StrReplaceFrom(s, old, new, 1)

IsHighSurrogate(u) == u >= 55296 /\ u <= 56319
IsLowSurrogate(u) == u >= 56320 /\ u <= 57343

\* bytes.decode("utf-16le", errors="ignore"): two bytes make a code unit (low
\* byte first), a surrogate pair makes one character, a lone surrogate and a
\* trailing odd byte are dropped.
RECURSIVE DecodeUtf16From(_, _)
DecodeUtf16From(b, i) ==
    IF i + 1 > Len(b) THEN <<>>
    ELSE LET u == b[i] + 256 * b[i + 1]
             hasNext == i + 3 <= Len(b)
             v == IF hasNext THEN b[i + 2] + 256 * b[i + 3] ELSE 0
         IN  IF IsHighSurrogate(u) /\ hasNext /\ IsLowSurrogate(v)
             THEN <<65536 + (u - 55296) * 1024 + (v - 56320)>> \o DecodeUtf16From(b, i + 4)
             ELSE IF IsHighSurrogate(u) \/ IsLowSurrogate(u)
                  THEN DecodeUtf16From(b, i + 2)
                  ELSE <<u>> \o DecodeUtf16From(b, i + 2)

DecodeUtf16(b) == DecodeUtf16From(b, 1)

\* bytesToPath: decode, then remove every NUL character.
bytesToPath(pathAsBytes) == StrReplace(DecodeUtf16(pathAsBytes), <<Nul>>, <<>>)

\* Line 138 without the replacement of the separators.
RemoveDotDotOnly(path) == StrReplace(path, <<Dot, Dot>>, <<>>)

\* The path sanitisation of writeToDisk (line 138).
SanitizePath(path) == StrReplace(StrReplace(path, <<Backslash>>, <<Slash>>), <<Dot, Dot>>, <<>>)

goodPath(path) == SavedFilesPrefix \o SanitizePath(path)

\* ------------------------------------------------------------------- dicts

\* d[k] = v of a Python dict.
Put(d, k, v) == [x \in (DOMAIN d) \cup {k} |-> IF x = k THEN v ELSE d[x]]

\* d.pop(k) for a key that is present.
Pop(d, k) == [x \in (DOMAIN d) \ {k} |-> d[x]]

EmptyDict == [x \in {} |-> 0]

\* ---------------------------------------------------------------- messages

RequestTypes == {"DeviceCreateRequestPDU", "DeviceReadRequestPDU",
                 "DeviceCloseRequestPDU", "DeviceIORequestPDU"}

\* isinstance(pdu, DeviceIORequestPDU): the create, read and close requests
\* are subclasses of the generic I/O request.
IsIORequest(pdu) == pdu.type \in RequestTypes

IsIOResponse(pdu) == pdu.type = "DeviceIOResponsePDU"

\* Every message is a record of one shape; a field a kind does not have holds
\* the default below.
BlankPDU ==
    [type |-> "DeviceRedirectionPDU", completionId |-> 0, fileId |-> 0, offset |-> 0,
     desiredAccess |-> {}, createOptions |-> {}, path |-> <<>>, ioStatus |-> 0,
     payload |-> <<>>, readData |-> <<>>]

CreateRequest(c, access, options, path) ==
    [BlankPDU EXCEPT !.type = "DeviceCreateRequestPDU", !.completionId = c,
                     !.desiredAccess = access, !.createOptions = options, !.path = path]

ReadRequest(c, f, off) ==
    [BlankPDU EXCEPT !.type = "DeviceReadRequestPDU", !.completionId = c,
                     !.fileId = f, !.offset = off]

CloseRequest(c, f) ==
    [BlankPDU EXCEPT !.type = "DeviceCloseRequestPDU", !.completionId = c, !.fileId = f]

OtherRequest(c) ==
    [BlankPDU EXCEPT !.type = "DeviceIORequestPDU", !.completionId = c]

IOResponse(c, status, payload) ==
    [BlankPDU EXCEPT !.type = "DeviceIOResponsePDU", !.completionId = c,
                     !.ioStatus = status, !.payload = payload]

DeviceListAnnounce == [BlankPDU EXCEPT !.type = "DeviceListAnnounceRequest"]

UnparsedPDU == BlankPDU

\* DeviceRedirectionParser.parseDeviceCreateResponse: the file id is the first
\* field of the response's payload.
parseDeviceCreateResponse(pdu) ==
    [pdu EXCEPT !.type = "DeviceCreateResponsePDU",
                !.fileId = IF Len(pdu.payload) >= 1 THEN pdu.payload[1] ELSE 0]

\* DeviceRedirectionParser.parseReadResponse: the payload is a length field
\* followed by the data; at most that many bytes are read from what follows.
parseReadResponse(pdu) ==
    LET n == IF Len(pdu.payload) >= 1 THEN pdu.payload[1] ELSE 0
    IN  [pdu EXCEPT !.type = "DeviceReadResponsePDU",
                    !.readData = SubSeq(pdu.payload, 2, Min(1 + n, Len(pdu.payload)))]

\* bytes.decode('utf-16') is strict: it raises UnicodeDecodeError on a
\* truncated code unit and on a surrogate that is not part of a pair.
RECURSIVE ValidUtf16From(_, _)
ValidUtf16From(b, i) ==
    IF i > Len(b) THEN TRUE
    ELSE IF i + 1 > Len(b) THEN FALSE
    ELSE LET u == b[i] + 256 * b[i + 1]
             hasNext == i + 3 <= Len(b)
             v == IF hasNext THEN b[i + 2] + 256 * b[i + 3] ELSE 0
         IN  IF IsHighSurrogate(u)
             THEN hasNext /\ IsLowSurrogate(v) /\ ValidUtf16From(b, i + 4)
             ELSE ~IsLowSurrogate(u) /\ ValidUtf16From(b, i + 2)

ValidUtf16(b) == ValidUtf16From(b, 1)

\* ------------------------------------------------------------------ BytesIO

\* A write that drops what the buffer held after the written bytes.
WriteAtTruncating(buf, off, data) ==
    IF Len(data) = 0 THEN buf
    ELSE [i \in 1..(off + Len(data)) |->
             IF i > off THEN data[i - off]
             ELSE IF i <= Len(buf) THEN buf[i] ELSE 0]

\* stream.seek(off); stream.write(data): an empty write changes nothing; a
\* write past the end fills the gap with zero bytes.
WriteAt(buf, off, data) ==
    IF Len(data) = 0 THEN buf
    ELSE [i \in 1..Max(Len(buf), off + Len(data)) |->
             IF i > off /\ i <= off + Len(data) THEN data[i - off]
             ELSE IF i <= Len(buf) THEN buf[i] ELSE 0]

\* -------------------------------------------------------------------- state

VARIABLES
    completionIdInProgress,  \* per observer: completion id -> request in flight
    openedFiles,             \* per observer: file id -> path bytes of a tracked file
    finalFiles,              \* per observer: path string -> bytes of its BytesIO
    out,                     \* what the last call of onPDUReceived did
    requestLeg,              \* the observer whose leg the I/O requests arrive on
    xfer                     \* the file transfer the two endpoints are carrying out

vars == <<completionIdInProgress, openedFiles, finalFiles, out, requestLeg, xfer>>

\* The value of a call in progress: the three dicts of both observers, the
\* receiving observer's pduToSend (assigned at line 43 before it is read, so
\* it carries nothing from one call to the next), and what the call has done
\* so far: the request its response was matched to (line 75), the messages
\* handed to the peer's sendPDU, the disk writes attempted, the diagnostics
\* logged and the exception that ended it, if any.
Call(self, pdu) ==
    [self |-> self, pdu |-> pdu,
     cip |-> completionIdInProgress, opened |-> openedFiles, final |-> finalFiles,
     pduToSend |-> pdu, requestPDU |-> BlankPDU,
     sent |-> <<>>, disk |-> <<>>, log |-> <<>>, fault |-> "none"]

Log(m, line) == [m EXCEPT !.log = Append(@, line)]

Raise(m, exc) == [m EXCEPT !.fault = exc]

Idle ==
    [self |-> "client", pdu |-> BlankPDU, requestPDU |-> BlankPDU, sent |-> <<>>,
     disk |-> <<>>, log |-> <<>>, fault |-> "none"]

\* ----------------------------------------------------------------- handlers
\* A handler is an operator from the call's value to the call's value.  The
\* statements that follow a statement that may raise are an operator of
\* their own, applied to the value that statement leaves.

\* open(goodPath, "wb") cannot succeed when goodPath names a directory: the
\* sanitised path is empty or ends with a separator.
NamesDirectory(p) == p[Len(p)] = Slash

\* The file system's answer to one writeToDisk: both calls succeed, or
\* os.makedirs raises OSError, or open/write does.
FsAnswers == {"ok", "makedirsFails", "openFails"}

DiskAttempt(m, good, stream, ok) ==
    [m EXCEPT !.disk = Append(@, [path |-> good, data |-> stream, ok |-> ok])]

\* Lines 139-142 of writeToDisk, for the sanitised path of line 138.  The
\* exception of a failing call is not caught.
makedirsAndWrite(m, good, stream, fs) ==
    IF fs = "makedirsFails"
    THEN Raise(DiskAttempt(m, good, stream, FALSE), "OSError")
    ELSE IF fs = "openFails" \/ NamesDirectory(good)
         THEN Raise(DiskAttempt(Log(m, "info:Writing"), good, stream, FALSE), "OSError")
         ELSE DiskAttempt(Log(m, "info:Writing"), good, stream, TRUE)

writeToDisk(m, path, stream, fs) == makedirsAndWrite(m, goodPath(path), stream, fs)

\* Lines 100-104 without the seek of line 103: the data goes to the end.
appendWithoutSeek(m, fileName, offset, readData) ==
    [m EXCEPT !.final[m.self] =
        Put(@, fileName,
            (IF fileName \in DOMAIN @ THEN @[fileName] ELSE <<>>) \o readData)]

\* Lines 100-104: the stream of fileName, created empty when absent, is
\* written at the request's offset.
seekAndWrite(m, fileName, offset, readData) ==
    [m EXCEPT !.final[m.self] =
        Put(@, fileName,
            WriteAt(IF fileName \in DOMAIN @ THEN @[fileName] ELSE <<>>, offset, readData))]

\* The buffer kept under the file id instead of the path.
storeReadDataKeyedByFileId(m, requestPDU) ==
    IF requestPDU.fileId \notin DOMAIN m.opened[m.self]
    THEN Raise(m, "KeyError")
    ELSE seekAndWrite(m, <<requestPDU.fileId>>, requestPDU.offset, m.pduToSend.readData)

\* Lines 99-104, with pduToSend already the parsed read response.
storeReadData(m, requestPDU) ==
    IF requestPDU.fileId \notin DOMAIN m.opened[m.self]
    THEN Raise(m, "KeyError")
    ELSE seekAndWrite(m, bytesToPath(m.opened[m.self][requestPDU.fileId]),
                      requestPDU.offset, m.pduToSend.readData)

dealWithReadResponse(m, pdu, requestPDU) ==
    storeReadData([m EXCEPT !.pduToSend = parseReadResponse(pdu)], requestPDU)

\* The condition of lines 112-113 without its second conjunct.
IsReadAnything(requestPDU) == requestPDU.desiredAccess \cap ReadAccessMask # {}

\* The condition of lines 112-113.
IsReadNonDirectory(requestPDU) ==
    /\ requestPDU.desiredAccess \cap ReadAccessMask # {}
    /\ requestPDU.createOptions \cap NonDirectoryMask # {}

\* Lines 112-115, with pduToSend already the parsed create response.  The
\* strict decode of the path in the log line of 114 comes before line 115.
registerOpened(m, requestPDU) ==
    IF IsReadNonDirectory(requestPDU)
    THEN IF ValidUtf16(requestPDU.path)
         THEN [Log(m, "info:Opening") EXCEPT
                  !.opened[m.self] = Put(@, m.pduToSend.fileId, requestPDU.path)]
         ELSE Raise(m, "UnicodeDecodeError")
    ELSE m

dealWithCreateResponse(m, pdu, requestPDU) ==
    registerOpened([m EXCEPT !.pduToSend = parseDeviceCreateResponse(pdu)], requestPDU)

\* Line 125, reached when writeToDisk has returned.
popOpened(m, fileId) ==
    IF m.fault # "none" THEN m
    ELSE [m EXCEPT !.opened[m.self] = Pop(@, fileId)]

\* A close that discards the buffer once it is written.
flushEvictAndPop(m, path, fileId, fs) ==
    IF path \notin DOMAIN m.final[m.self]
    THEN Raise(m, "KeyError")
    ELSE popOpened([writeToDisk(m, path, m.final[m.self][path], fs)
                       EXCEPT !.final[m.self] = Pop(@, path)], fileId)

\* Lines 124-125: self.finalFiles[path] is a KeyError when no read response
\* has created the stream of path.
flushAndPop(m, path, fileId, fs) ==
    IF path \notin DOMAIN m.final[m.self]
    THEN Raise(m, "KeyError")
    ELSE popOpened(writeToDisk(m, path, m.final[m.self][path], fs), fileId)

\* dealWithCloseResponse without the test of line 121: the lookup of line 123
\* raises for a file id that is not in the registry.
dealWithCloseResponseUnguarded(m, pdu, requestPDU, fs) ==
    IF requestPDU.fileId \in DOMAIN m.opened[m.self]
    THEN flushAndPop(Log(m, "info:Closing"),
                     bytesToPath(m.opened[m.self][requestPDU.fileId]),
                     requestPDU.fileId, fs)
    ELSE Raise(m, "KeyError")

dealWithCloseResponse(m, pdu, requestPDU, fs) ==
    IF requestPDU.fileId \in DOMAIN m.opened[m.self]
    THEN flushAndPop(Log(m, "info:Closing"),
                     bytesToPath(m.opened[m.self][requestPDU.fileId]),
                     requestPDU.fileId, fs)
    ELSE m

\* Lines 61-67: the diagnostics of a request; the one of a read request looks
\* the file id up in the peer's openedFiles.
logRequest(m, pdu) ==
    IF pdu.type = "DeviceReadRequestPDU"
    THEN IF pdu.fileId \in DOMAIN m.opened[Peer(m.self)]
         THEN Log(m, "debug:ReadRequest")
         ELSE Raise(m, "KeyError")
    ELSE IF pdu.type = "DeviceCreateRequestPDU"
    THEN IF pdu.desiredAccess \cap ReadAccessMask # {}
         THEN Log(m, "debug:CreateForRead")
         ELSE m
    ELSE Log(m, "debug:UnparsedRequest")

\* The request recorded under its file id instead of its completion id.
dealWithRequestKeyedByFileId(m, pdu) ==
    logRequest([m EXCEPT !.cip[Peer(m.self)] = Put(@, pdu.fileId, pdu)], pdu)

\* The request recorded in the observer's own table instead of the peer's.
dealWithRequestOwnTable(m, pdu) ==
    logRequest([m EXCEPT !.cip[m.self] = Put(@, pdu.completionId, pdu)], pdu)

dealWithRequest(m, pdu) ==
    logRequest([m EXCEPT !.cip[Peer(m.self)] = Put(@, pdu.completionId, pdu)], pdu)

IsErrorStatus(ioStatus) ==
    ioStatus \div (2 ^ (SeverityShift - DroppedStatusBits)) = StatusSeverityError

\* Lines 76-78.
warnOnErrorStatus(m, pdu) ==
    IF IsErrorStatus(pdu.ioStatus) THEN Log(m, "warning:ErrorStatus") ELSE m

\* Lines 79-87: the response is handled by the kind of its request.
dispatchResponse(m, pdu, fs) ==
    IF m.requestPDU.type = "DeviceReadRequestPDU"
    THEN dealWithReadResponse(Log(m, "debug:ReadResponse"), pdu, m.requestPDU)
    ELSE IF m.requestPDU.type = "DeviceCreateRequestPDU"
    THEN dealWithCreateResponse(m, pdu, m.requestPDU)
    ELSE IF m.requestPDU.type = "DeviceCloseRequestPDU"
    THEN dealWithCloseResponse(m, pdu, m.requestPDU, fs)
    ELSE Log(m, "debug:UnknownResponse")

\* Line 88, reached when the handler of the response has returned.
popCompletionId(m, completionId) ==
    IF m.fault # "none" THEN m
    ELSE [m EXCEPT !.cip[m.self] = Pop(@, completionId)]

\* A response with an error status is warned about and dropped from the
\* table without being dispatched.
dealWithResponseSkippingErrors(m, pdu, fs) ==
    IF pdu.completionId \in DOMAIN m.cip[m.self]
    THEN IF IsErrorStatus(pdu.ioStatus)
         THEN popCompletionId(warnOnErrorStatus(
                  [m EXCEPT !.requestPDU = m.cip[m.self][pdu.completionId]], pdu),
                  pdu.completionId)
         ELSE popCompletionId(dispatchResponse(
                  [m EXCEPT !.requestPDU = m.cip[m.self][pdu.completionId]], pdu, fs),
                  pdu.completionId)
    ELSE Log(m, "error:UnknownCompletionId")

\* dealWithResponse without the test of line 74: the lookup of line 75 raises.
dealWithResponseUnguarded(m, pdu, fs) ==
    IF pdu.completionId \in DOMAIN m.cip[m.self]
    THEN popCompletionId(
             dispatchResponse(
                 warnOnErrorStatus(
                     [m EXCEPT !.requestPDU = m.cip[m.self][pdu.completionId]], pdu),
                 pdu, fs),
             pdu.completionId)
    ELSE Raise(m, "KeyError")

dealWithResponse(m, pdu, fs) ==
    IF pdu.completionId \in DOMAIN m.cip[m.self]
    THEN popCompletionId(
             dispatchResponse(
                 warnOnErrorStatus(
                     [m EXCEPT !.requestPDU = m.cip[m.self][pdu.completionId]], pdu),
                 pdu, fs),
             pdu.completionId)
    ELSE Log(m, "error:UnknownCompletionId")

\* sendPDU of the peer: the message is encoded and given to the peer's layer.
sendPDU(m, pdu) == [m EXCEPT !.sent = Append(@, [to |-> Peer(m.self), pdu |-> pdu])]

\* Lines 44-51 of onPDUReceived.
dispatchPDU(m, pdu, fs) ==
    IF IsIORequest(pdu) THEN dealWithRequest(m, pdu)
    ELSE IF IsIOResponse(pdu) THEN dealWithResponse(m, pdu, fs)
    ELSE IF pdu.type = "DeviceListAnnounceRequest" THEN Log(m, "info:DeviceMapped")
    ELSE Log(m, "debug:UnparsedPDU")

\* Line 53, reached when the dispatch has returned.
sendToPeer(m) == IF m.fault # "none" THEN m ELSE sendPDU(m, m.pduToSend)

onPDUReceived(self, pdu, fs) == sendToPeer(dispatchPDU(Call(self, pdu), pdu, fs))

\* ------------------------------------------------------------------- inputs

CompIds == 1..MaxCompId
FileIds == 0..MaxFileId
Offsets == 0..MaxOffset

\* "a" followed by its terminator; "..\a"; "a" with a truncated terminator.
PathA == <<97, 0, 0, 0>>
PathB == <<46, 0, 46, 0, 92, 0, 97, 0>>
PathTruncated == <<97, 0, 0>>
Paths == {PathA, PathTruncated}

AccessInputs == {{"GENERIC_READ"}, {"FILE_READ_DATA"}, {"GENERIC_WRITE"}}
OptionInputs == {{"FILE_NON_DIRECTORY_FILE"}, {"FILE_DIRECTORY_FILE"}}
StatusInputs == {StatusSuccessHigh, StatusUnsuccessfulHigh}

\* A response payload: a first field n (the file id of a create response, the
\* length of a read response) followed by the n data bytes 7, 8, ...
DataOf(n) == [i \in 1..n |-> 6 + i]
ResponsePayloads == {<<n>> \o DataOf(n) : n \in FileIds}

\* The requests in flight on both legs once self has taken a request with
\* completion id c.
PendingAfter(self, c) ==
    Cardinality((DOMAIN completionIdInProgress[Peer(self)]) \cup {c})
        + Cardinality(DOMAIN completionIdInProgress[self])

\* ------------------------------------------------- any traffic: Init, Next

\* No scripted transfer: the endpoints send any message at any time.
NoXfer == [phase |-> "off"]

\* The observers as __init__ leaves them.
InitObservers ==
    /\ completionIdInProgress = [o \in Observers |-> EmptyDict]
    /\ openedFiles = [o \in Observers |-> EmptyDict]
    /\ finalFiles = [o \in Observers |-> EmptyDict]
    /\ out = Idle
    /\ requestLeg \in Observers

Init ==
    /\ InitObservers
    /\ xfer = NoXfer

\* One message delivered to onPDUReceived of observer self.
Deliver(self, pdu, fs) ==
    LET m == onPDUReceived(self, pdu, fs)
    IN  /\ completionIdInProgress' = m.cip
        /\ openedFiles' = m.opened
        /\ finalFiles' = m.final
        /\ out' = [self |-> self, pdu |-> pdu, requestPDU |-> m.requestPDU,
                   sent |-> m.sent, disk |-> m.disk, log |-> m.log, fault |-> m.fault]
        /\ UNCHANGED requestLeg

ReceiveCreateRequest ==
    \E c \in CompIds, a \in AccessInputs, o \in OptionInputs, p \in Paths :
        /\ PendingAfter(requestLeg, c) <= MaxPending
        /\ Deliver(requestLeg, CreateRequest(c, a, o, p), "ok")
        /\ UNCHANGED xfer

ReceiveReadRequest ==
    \E c \in CompIds, f \in FileIds, off \in Offsets :
        /\ PendingAfter(requestLeg, c) <= MaxPending
        /\ Deliver(requestLeg, ReadRequest(c, f, off), "ok")
        /\ UNCHANGED xfer

ReceiveCloseRequest ==
    \E c \in CompIds, f \in FileIds :
        /\ PendingAfter(requestLeg, c) <= MaxPending
        /\ Deliver(requestLeg, CloseRequest(c, f), "ok")
        /\ UNCHANGED xfer

ReceiveOtherRequest ==
    \E c \in CompIds :
        /\ PendingAfter(requestLeg, c) <= MaxPending
        /\ Deliver(requestLeg, OtherRequest(c), "ok")
        /\ UNCHANGED xfer

\* Whether a response with completion id c makes self write a file: the file
\* system has an answer to give only then.
AsksFileSystem(self, c) ==
    /\ c \in DOMAIN completionIdInProgress[self]
    /\ completionIdInProgress[self][c].type = "DeviceCloseRequestPDU"
    /\ completionIdInProgress[self][c].fileId \in DOMAIN openedFiles[self]

FsAnswersTo(self, c) == IF AsksFileSystem(self, c) THEN FsAnswers ELSE {"ok"}

ReceiveResponse ==
    \E self \in Observers, c \in CompIds, st \in StatusInputs, pl \in ResponsePayloads :
        \E fs \in FsAnswersTo(self, c) :
            /\ Deliver(self, IOResponse(c, st, pl), fs)
            /\ UNCHANGED xfer

ReceiveDeviceListAnnounce ==
    \E self \in Observers :
        /\ Deliver(self, DeviceListAnnounce, "ok")
        /\ UNCHANGED xfer

ReceiveUnparsed ==
    \E self \in Observers :
        /\ Deliver(self, UnparsedPDU, "ok")
        /\ UNCHANGED xfer

Next ==
    \/ ReceiveCreateRequest
    \/ ReceiveReadRequest
    \/ ReceiveCloseRequest
    \/ ReceiveOtherRequest
    \/ ReceiveResponse
    \/ ReceiveDeviceListAnnounce
    \/ ReceiveUnparsed

Spec == Init /\ [][Next]_vars

\* ------------------------------------------- one file transfer: Init, Next
\* The endpoints carry out one transfer of a file opened for reading: the
\* create request and its response, the read requests of a plan, their
\* responses in any order, the close request and its response.  Requests
\* arrive on requestLeg, responses on the other leg.

\* The strings of at most MaxPathLen characters over NUL . / \ a, and their
\* UTF-16LE encodings.
PathAlphabet == {Nul, Dot, Slash, Backslash, LetterA}
PathStrings == UNION {[1..n -> PathAlphabet] : n \in 0..MaxPathLen}
EncodeUtf16(str) == [i \in 1..(2 * Len(str)) |->
                        IF i % 2 = 1 THEN str[(i + 1) \div 2] % 256
                        ELSE str[i \div 2] \div 256]
EncodedPaths == {EncodeUtf16(str) : str \in PathStrings}

TransferPaths == {PathA, PathB}

\* A plan: the reads the requester will issue, in this order.
PlannedReads == [offset : 0..MaxChunk, length : 0..MaxChunk]
ReadPlans == UNION {[1..n -> PlannedReads] : n \in 1..MaxReads}

\* The bytes the read number k of the plan returns: k1, k2, ...
Chunk(k, n) == [i \in 1..n |-> 10 * k + i]

NewXfer(path, fileId, plan) ==
    [phase |-> "start", path |-> path, fileId |-> fileId, plan |-> plan,
     issued |-> 0, pending |-> EmptyDict, answered |-> <<>>]

InitTransfer ==
    /\ InitObservers
    /\ xfer \in {NewXfer(p, f, plan) : p \in TransferPaths, f \in FileIds, plan \in ReadPlans}

InitPath ==
    /\ InitObservers
    /\ xfer \in {NewXfer(p, 0, <<[offset |-> 0, length |-> 1]>>) : p \in EncodedPaths}

\* The requester takes the least completion id that no request in flight has.
FreeIds == CompIds \ DOMAIN completionIdInProgress[Peer(requestLeg)]
FreshId == CHOOSE c \in FreeIds : \A d \in FreeIds : c <= d

XferCreateRequest ==
    /\ xfer.phase = "start"
    /\ Deliver(requestLeg,
               CreateRequest(FreshId, {"GENERIC_READ"}, {"FILE_NON_DIRECTORY_FILE"}, xfer.path),
               "ok")
    /\ xfer' = [xfer EXCEPT !.phase = "creating", !.pending = Put(@, FreshId, 0)]

XferCreateResponse ==
    /\ xfer.phase = "creating"
    /\ \E c \in DOMAIN xfer.pending :
        /\ Deliver(Peer(requestLeg), IOResponse(c, StatusSuccessHigh, <<xfer.fileId>>), "ok")
        /\ xfer' = [xfer EXCEPT !.phase = "open", !.pending = Pop(@, c)]

XferReadRequest ==
    /\ xfer.phase = "open"
    /\ xfer.issued < Len(xfer.plan)
    /\ FreeIds # {}
    /\ Deliver(requestLeg,
               ReadRequest(FreshId, xfer.fileId, xfer.plan[xfer.issued + 1].offset), "ok")
    /\ xfer' = [xfer EXCEPT !.issued = @ + 1, !.pending = Put(@, FreshId, xfer.issued + 1)]

XferReadResponse ==
    /\ xfer.phase = "open"
    /\ \E c \in DOMAIN xfer.pending :
        LET k == xfer.pending[c]
            n == xfer.plan[k].length
        IN  /\ Deliver(Peer(requestLeg),
                       IOResponse(c, StatusSuccessHigh, <<n>> \o Chunk(k, n)), "ok")
            /\ xfer' = [xfer EXCEPT !.pending = Pop(@, c), !.answered = Append(@, k)]

XferCloseRequest ==
    /\ xfer.phase = "open"
    /\ xfer.issued = Len(xfer.plan)
    /\ DOMAIN xfer.pending = {}
    /\ Deliver(requestLeg, CloseRequest(FreshId, xfer.fileId), "ok")
    /\ xfer' = [xfer EXCEPT !.phase = "closing", !.pending = Put(@, FreshId, 0)]

XferCloseResponse ==
    /\ xfer.phase = "closing"
    /\ \E c \in DOMAIN xfer.pending, fs \in FsAnswers :
        /\ Deliver(Peer(requestLeg), IOResponse(c, StatusSuccessHigh, <<>>), fs)
        /\ xfer' = [xfer EXCEPT !.phase = "done", !.pending = Pop(@, c)]

NextTransfer ==
    \/ XferCreateRequest
    \/ XferCreateResponse
    \/ XferReadRequest
    \/ XferReadResponse
    \/ XferCloseRequest
    \/ XferCloseResponse

SpecTransfer == InitTransfer /\ [][NextTransfer]_vars

SpecPath == InitPath /\ [][NextTransfer]_vars

\* ------------------------------------ one transfer with crossing requests
\* The transfer above, while the other endpoint sends I/O requests of its own
\* in the opposite direction: they arrive on the leg of the transfer's
\* responses, are recorded in the table of the observer of requestLeg, and
\* are answered on requestLeg.  At most one of them is in flight.

XferReverseRequest ==
    /\ DOMAIN completionIdInProgress[requestLeg] = {}
    /\ \E c \in CompIds : Deliver(Peer(requestLeg), OtherRequest(c), "ok")
    /\ UNCHANGED xfer

XferReverseResponse ==
    /\ \E c \in DOMAIN completionIdInProgress[requestLeg] :
           Deliver(requestLeg, IOResponse(c, StatusSuccessHigh, <<>>), "ok")
    /\ UNCHANGED xfer

NextCrossing ==
    \/ NextTransfer
    \/ XferReverseRequest
    \/ XferReverseResponse

SpecCrossing == InitTransfer /\ [][NextCrossing]_vars

\* ----------------------------------------- a second transfer after a close
\* When the transfer is over the requester opens a file again, the same one
\* or the other one, under the same file id, reads it once and closes it.
\* The reads keep their numbering, so the second transfer's read returns
\* bytes that the first transfer's reads did not return.

XferReopen ==
    /\ xfer.phase = "done"
    /\ "reopenedAfter" \notin DOMAIN xfer
    /\ \E p \in TransferPaths, r \in PlannedReads :
           xfer' = [phase |-> "start", path |-> p, fileId |-> xfer.fileId,
                    plan |-> Append(xfer.plan, r), issued |-> xfer.issued,
                    pending |-> EmptyDict, answered |-> xfer.answered,
                    reopenedAfter |-> Len(xfer.plan),
                    closed |-> finalFiles[Peer(requestLeg)]]
    /\ UNCHANGED <<completionIdInProgress, openedFiles, finalFiles, out, requestLeg>>

NextReopen ==
    \/ NextTransfer
    \/ XferReopen

SpecReopen == InitTransfer /\ [][NextReopen]_vars

\* The same with a first transfer of one read.
InitOneRead ==
    /\ InitObservers
    /\ xfer \in {NewXfer(p, f, <<r>>) : p \in TransferPaths, f \in FileIds, r \in PlannedReads}

SpecReread == InitOneRead /\ [][NextReopen]_vars

\* ------------------------------- an untracked open after a tracked transfer
\* When the transfer is over the device gives the file id again, to an open
\* that dealWithCreateResponse does not track: one without read access or one
\* without the non-directory option.  The requester reads under the file id
\* once and closes it.

UntrackedOpens ==
    {[access |-> {"GENERIC_WRITE"}, options |-> {"FILE_NON_DIRECTORY_FILE"}],
     [access |-> {"GENERIC_READ"}, options |-> {"FILE_DIRECTORY_FILE"}]}

XferReopenUntracked ==
    /\ xfer.phase = "done"
    /\ "untracked" \notin DOMAIN xfer
    /\ \E p \in TransferPaths, r \in PlannedReads, u \in UntrackedOpens :
           xfer' = [phase |-> "startUntracked", path |-> p, fileId |-> xfer.fileId,
                    plan |-> Append(xfer.plan, r), issued |-> xfer.issued,
                    pending |-> EmptyDict, answered |-> xfer.answered,
                    untracked |-> u]
    /\ UNCHANGED <<completionIdInProgress, openedFiles, finalFiles, out, requestLeg>>

XferCreateUntrackedRequest ==
    /\ xfer.phase = "startUntracked"
    /\ Deliver(requestLeg,
               CreateRequest(FreshId, xfer.untracked.access, xfer.untracked.options, xfer.path),
               "ok")
    /\ xfer' = [xfer EXCEPT !.phase = "creating", !.pending = Put(@, FreshId, 0)]

NextUntracked ==
    \/ NextTransfer
    \/ XferReopenUntracked
    \/ XferCreateUntrackedRequest

SpecUntracked == InitTransfer /\ [][NextUntracked]_vars

\* ------------------------------------ a completion id reused while in flight
\* During the transfer, while a read request with completion id c awaits its
\* response, the requester sends one more request under the same id c.  The
\* device answers the read; then one more response with id c arrives.  The
\* transfer goes on afterwards.

LaterRequests(c) ==
    {ReadRequest(c, xfer.fileId, 0), CloseRequest(c, xfer.fileId), OtherRequest(c),
     CreateRequest(c, {"GENERIC_READ"}, {"FILE_NON_DIRECTORY_FILE"}, PathA)}

XferReuseId ==
    /\ xfer.phase = "open"
    /\ "reuse" \notin DOMAIN xfer
    /\ \E c \in DOMAIN xfer.pending : \E later \in LaterRequests(c) :
           /\ Deliver(requestLeg, later, "ok")
           /\ xfer' = [reuse |-> [id |-> c, later |-> later, answers |-> 0]]
                          @@ [xfer EXCEPT !.phase = "reusing"]

XferReuseResponse ==
    /\ xfer.phase = "reusing"
    /\ xfer.reuse.answers = 0
    /\ \E fs \in FsAnswers :
           Deliver(Peer(requestLeg),
                   IOResponse(xfer.reuse.id, StatusSuccessHigh,
                              <<xfer.plan[xfer.pending[xfer.reuse.id]].length>>
                                  \o Chunk(xfer.pending[xfer.reuse.id],
                                           xfer.plan[xfer.pending[xfer.reuse.id]].length)),
                   fs)
    /\ xfer' = [xfer EXCEPT !.reuse.answers = 1,
                            !.pending = Pop(@, xfer.reuse.id),
                            !.answered = Append(@, xfer.pending[xfer.reuse.id])]

XferFurtherResponse ==
    /\ xfer.phase = "reusing"
    /\ xfer.reuse.answers = 1
    /\ \E fs \in FsAnswers :
           Deliver(Peer(requestLeg), IOResponse(xfer.reuse.id, StatusSuccessHigh, <<0>>), fs)
    /\ xfer' = [xfer EXCEPT !.reuse.answers = 2, !.phase = "open"]

NextReuse ==
    \/ NextTransfer
    \/ XferReuseId
    \/ XferReuseResponse
    \/ XferFurtherResponse

SpecReuse == InitTransfer /\ [][NextReuse]_vars

\* ----------------------------------------- a second file id on the same path
\* When the reads of the transfer are answered the requester, instead of
\* closing the file, opens the same path once more: the device gives it
\* another file id, under which the requester reads once and closes.  The
\* first file id stays open.  The first transfer has one read.

XferSecondHandle ==
    /\ xfer.phase = "open"
    /\ xfer.issued = Len(xfer.plan)
    /\ DOMAIN xfer.pending = {}
    /\ "first" \notin DOMAIN xfer
    /\ \E g \in FileIds \ {xfer.fileId}, r \in PlannedReads :
           xfer' = [first |-> xfer.fileId]
                       @@ [xfer EXCEPT !.phase = "start", !.fileId = g,
                                       !.plan = Append(@, r)]
    /\ UNCHANGED <<completionIdInProgress, openedFiles, finalFiles, out, requestLeg>>

NextShared ==
    \/ NextTransfer
    \/ XferSecondHandle

SpecShared == InitOneRead /\ [][NextShared]_vars

\* =================================================================== claims

\* What the step that has just been taken was: the message it delivered and
\* the observer it was delivered to are out'.pdu and out'.self; the stores
\* before the step are the unprimed variables.
Responder == Peer(requestLeg)

IsForwarded(e, pdu) == e.sent = <<[to |-> Peer(e.self), pdu |-> pdu]>>

AttemptsOf(e) == {e.disk[i] : i \in DOMAIN e.disk}

\* C1 (as claimed): every message delivered to onPDUReceived, of any kind and
\* in any state of the stores, is handed to the peer's sendPDU exactly once
\* and no fault escapes the call.
C1_EveryMessageForwardedOnce ==
    out # Idle => (out.fault = "none" /\ Len(out.sent) = 1 /\ out.sent[1].to = Peer(out.self))

\* C3: a response whose completion id is not in the receiving observer's
\* table leaves that observer's three stores unchanged, attempts no disk
\* write and is forwarded as received.
C3_UnknownResponseChangesNothing ==
    [][(IsIOResponse(out'.pdu)
         /\ out'.pdu.completionId \notin DOMAIN completionIdInProgress[out'.self])
       => (/\ completionIdInProgress'[out'.self] = completionIdInProgress[out'.self]
           /\ openedFiles'[out'.self] = openedFiles[out'.self]
           /\ finalFiles'[out'.self] = finalFiles[out'.self]
           /\ out'.disk = <<>>
           /\ out'.fault = "none"
           /\ IsForwarded(out', out'.pdu))]_vars

\* C3 witness: an unknown response has been handled by an observer that has a
\* request in flight, a tracked file and a buffer.
C3_Witness ==
    /\ IsIOResponse(out.pdu)
    /\ out.log = <<"error:UnknownCompletionId">>
    /\ out.pdu.completionId \notin DOMAIN completionIdInProgress[out.self]
    /\ DOMAIN completionIdInProgress[out.self] # {}
    /\ DOMAIN openedFiles[out.self] # {}
    /\ DOMAIN finalFiles[out.self] # {}

\* Whether a request asks for read access to something that is not a directory.
AsksReadOfFile(r) ==
    /\ r.type = "DeviceCreateRequestPDU"
    /\ ("GENERIC_READ" \in r.desiredAccess \/ "FILE_READ_DATA" \in r.desiredAccess)
    /\ "FILE_NON_DIRECTORY_FILE" \in r.createOptions

\* C4: an entry enters a handle registry (or changes in it) only in the step
\* of the registry's observer that handles a response matched to a create
\* request asking read access to a non-directory file, and the entry is the
\* response's file id with the request's path.
C4_RegistryOnlyFromReadCreates ==
    [][\A o \in Observers : \A f \in DOMAIN openedFiles'[o] :
          (f \notin DOMAIN openedFiles[o] \/ openedFiles'[o][f] # openedFiles[o][f])
          => /\ o = out'.self
             /\ IsIOResponse(out'.pdu)
             /\ out'.pdu.completionId \in DOMAIN completionIdInProgress[o]
             /\ AsksReadOfFile(completionIdInProgress[o][out'.pdu.completionId])
             /\ f = out'.pdu.payload[1]
             /\ openedFiles'[o][f] = completionIdInProgress[o][out'.pdu.completionId].path]_vars

\* C4 witness: a create response for a FILE_READ_DATA, non-directory create
\* has registered its file id.
C4_Witness ==
    /\ IsIOResponse(out.pdu)
    /\ AsksReadOfFile(out.requestPDU)
    /\ "FILE_READ_DATA" \in out.requestPDU.desiredAccess
    /\ out.fault = "none"
    /\ out.pdu.payload[1] \in DOMAIN openedFiles[out.self]

\* C5: a close response matched to a close request whose file id is not in
\* the registry attempts no disk write, raises no fault, leaves the registry
\* and the buffers unchanged, removes its completion id from the table and
\* is forwarded.
C5_CloseOfUntrackedFile ==
    [][LET o == out'.self
           c == out'.pdu.completionId
       IN  (/\ IsIOResponse(out'.pdu)
            /\ c \in DOMAIN completionIdInProgress[o]
            /\ completionIdInProgress[o][c].type = "DeviceCloseRequestPDU"
            /\ completionIdInProgress[o][c].fileId \notin DOMAIN openedFiles[o])
           => (/\ out'.disk = <<>>
               /\ out'.fault = "none"
               /\ openedFiles' = openedFiles
               /\ finalFiles' = finalFiles
               /\ DOMAIN completionIdInProgress'[o] = (DOMAIN completionIdInProgress[o]) \ {c}
               /\ \A d \in DOMAIN completionIdInProgress'[o] :
                      completionIdInProgress'[o][d] = completionIdInProgress[o][d]
               /\ IsForwarded(out', out'.pdu))]_vars

\* C5 witness: such a close response has been handled while another file id
\* was in the registry.
C5_Witness ==
    /\ IsIOResponse(out.pdu)
    /\ out.requestPDU.type = "DeviceCloseRequestPDU"
    /\ out.requestPDU.fileId \notin DOMAIN openedFiles[out.self]
    /\ DOMAIN openedFiles[out.self] # {}
    /\ out.disk = <<>>
    /\ Len(out.sent) = 1

\* C6 (as claimed): when the disk write of a close response fails, the close
\* response is still forwarded to the peer and no fault leaves the call.
C6_DiskFailureConfined ==
    (\E a \in AttemptsOf(out) : ~a.ok)
    => (out.fault = "none" /\ IsForwarded(out, out.pdu))

\* C10 (as claimed): a response whose completion id is in the receiving
\* observer's table leaves the table without that completion id.
C10_MatchedIdRemoved ==
    [][(IsIOResponse(out'.pdu)
         /\ out'.pdu.completionId \in DOMAIN completionIdInProgress[out'.self])
       => out'.pdu.completionId \notin DOMAIN completionIdInProgress'[out'.self]]_vars

\* ------------------------------------------------ claims on one transfer

\* The read number k of the plan covers the bytes lo(k) .. hi(k)-1.
ReadLo(k) == xfer.plan[k].offset
ReadHi(k) == xfer.plan[k].offset + xfer.plan[k].length
PlanIndexes == 1..Len(xfer.plan)

\* No byte is covered by two reads of the plan.
NonOverlappingReads ==
    \A i, j \in PlanIndexes :
        i # j => ~(Max(ReadLo(i), ReadLo(j)) < Min(ReadHi(i), ReadHi(j)))

RECURSIVE TotalLength(_)
TotalLength(K) ==
    IF K = {} THEN 0
    ELSE LET k == CHOOSE x \in K : TRUE
         IN  xfer.plan[k].length + TotalLength(K \ {k})

\* The reads cover the bytes from 0 on without a gap.
GaplessFromZero ==
    \A b \in 0..(TotalLength(PlanIndexes) - 1) :
        \E k \in PlanIndexes : ReadLo(k) <= b /\ b < ReadHi(k)

\* The payloads of the reads K, concatenated by increasing offset.
RECURSIVE ConcatInOffsetOrder(_)
ConcatInOffsetOrder(K) ==
    IF K = {} THEN <<>>
    ELSE LET k == CHOOSE x \in K : \A y \in K : ReadLo(x) <= ReadLo(y)
         IN  Chunk(k, xfer.plan[k].length) \o ConcatInOffsetOrder(K \ {k})

\* The transfer is over and its close response has written the file.
TransferWritten ==
    /\ xfer.phase = "done"
    /\ Len(out.disk) = 1
    /\ out.disk[1].ok

\* C2 (as claimed): when the reads of the transfer cover non-overlapping
\* ranges, the bytes written at the close response are the read payloads
\* concatenated in offset order, whatever the order the responses came in.
C2_WrittenIsConcatenation ==
    (TransferWritten /\ NonOverlappingReads)
    => out.disk[1].data = ConcatInOffsetOrder(PlanIndexes)

\* C2 (amended): the same when, moreover, the ranges cover the bytes from
\* offset 0 on without a gap (the transfer starts with no buffer for the path).
C2_WrittenIsConcatenationOfGapless ==
    (TransferWritten /\ NonOverlappingReads /\ GaplessFromZero)
    => out.disk[1].data = ConcatInOffsetOrder(PlanIndexes)

\* C2 witness: two non-empty reads that tile the file were answered in the
\* reverse of the order they were requested in, and the file was written.
C2_Witness ==
    /\ TransferWritten
    /\ NonOverlappingReads
    /\ GaplessFromZero
    /\ Len(xfer.plan) = 2
    /\ xfer.plan[1].length > 0
    /\ xfer.plan[2].length > 0
    /\ xfer.answered = <<2, 1>>
    /\ out.disk[1].data = Chunk(2, xfer.plan[2].length) \o Chunk(1, xfer.plan[1].length)

\* C7 (as claimed): after the complete exchange, every request answered, the
\* handle registry and the correlation table of the observer are empty.
C7_StoresEmptyAfterExchange ==
    xfer.phase = "done"
    => (/\ DOMAIN openedFiles[Responder] = {}
        /\ DOMAIN completionIdInProgress[Responder] = {})

\* The characters of a local path after the capture directory prefix.
AfterPrefix(p) == SubSeq(p, Len(SavedFilesPrefix) + 1, Len(p))

\* C8: every local path writeToDisk builds starts with the capture directory
\* prefix and, after it, has no backslash and no two dots in a row.
C8_LocalPathInsideCaptureDirectory ==
    \A a \in AttemptsOf(out) :
        /\ Len(a.path) >= Len(SavedFilesPrefix)
        /\ SubSeq(a.path, 1, Len(SavedFilesPrefix)) = SavedFilesPrefix
        /\ \A i \in 1..Len(a.path) : a.path[i] # Backslash
        /\ \A i \in 1..(Len(a.path) - 1) : ~(a.path[i] = Dot /\ a.path[i + 1] = Dot)

\* C8 witness: a file was written for a remote path that has a backslash
\* right after a parent-directory token.
C8_Witness ==
    /\ Len(out.disk) = 1
    /\ out.disk[1].ok
    /\ \E i \in 1..Len(bytesToPath(xfer.path)) :
           OccursAt(bytesToPath(xfer.path), <<Dot, Dot, Backslash>>, i)

\* C9: normalising a normalised path again gives the same string: a buffer
\* key (a result of bytesToPath) encoded and given to bytesToPath again, and
\* the part of a local path after the prefix (a result of line 138) given to
\* bytesToPath and to the replacements of line 138 again.
C9_NormalizationIdempotent ==
    /\ \A o \in Observers : \A k \in DOMAIN finalFiles[o] :
           bytesToPath(EncodeUtf16(k)) = k
    /\ \A a \in AttemptsOf(out) :
           SanitizePath(bytesToPath(EncodeUtf16(AfterPrefix(a.path)))) = AfterPrefix(a.path)

\* C9 witness: a path with a terminator inside, a backslash and a
\* parent-directory token went through both normalisations.
C9_Witness ==
    /\ Len(out.disk) = 1
    /\ \E i \in 1..Len(DecodeUtf16(xfer.path)) : DecodeUtf16(xfer.path)[i] = Nul
    /\ \E i \in 1..Len(bytesToPath(xfer.path)) : bytesToPath(xfer.path)[i] = Backslash
    /\ \E i \in 1..Len(bytesToPath(xfer.path)) : OccursAt(bytesToPath(xfer.path), <<Dot, Dot>>, i)
    /\ AfterPrefix(out.disk[1].path) # bytesToPath(xfer.path)
    /\ DOMAIN finalFiles[Responder] = {bytesToPath(xfer.path)}

\* ------------------------------------------------ claims on the close path

\* C11 (as claimed): a close response matched to a close request whose file
\* id is in the registry writes the file to disk and removes that file id
\* from the registry, whatever the state of the buffers.
C11_TrackedCloseFlushesAndRemoves ==
    [][LET o == out'.self
           c == out'.pdu.completionId
       IN  (/\ IsIOResponse(out'.pdu)
            /\ c \in DOMAIN completionIdInProgress[o]
            /\ completionIdInProgress[o][c].type = "DeviceCloseRequestPDU"
            /\ completionIdInProgress[o][c].fileId \in DOMAIN openedFiles[o])
           => (/\ \E a \in AttemptsOf(out') : a.ok
               /\ completionIdInProgress[o][c].fileId \notin DOMAIN openedFiles'[o])]_vars

\* ------------------------------------------- claims on the peer's stores

\* C12: a step of observer X leaves the registry and the buffers of X's peer
\* unchanged; when the message is an I/O request the peer's table becomes the
\* old one with the request under its completion id and X's own table is
\* unchanged; for any other message the peer's table is unchanged as well.
C12_OnlyPeerTableInsertion ==
    [][LET x == out'.self
           p == Peer(out'.self)
       IN  /\ openedFiles'[p] = openedFiles[p]
           /\ finalFiles'[p] = finalFiles[p]
           /\ IF IsIORequest(out'.pdu)
              THEN /\ completionIdInProgress'[p] =
                          Put(completionIdInProgress[p], out'.pdu.completionId, out'.pdu)
                   /\ completionIdInProgress'[x] = completionIdInProgress[x]
              ELSE completionIdInProgress'[p] = completionIdInProgress[p]]_vars

\* C12 witness: an observer with a request of its own table in flight has
\* taken a request and recorded it in the table of its peer, whose registry
\* and buffers are not empty.
C12_Witness ==
    /\ IsIORequest(out.pdu)
    /\ DOMAIN completionIdInProgress[out.self] # {}
    /\ out.pdu.completionId \in DOMAIN completionIdInProgress[Peer(out.self)]
    /\ completionIdInProgress[Peer(out.self)][out.pdu.completionId] = out.pdu
    /\ DOMAIN openedFiles[Peer(out.self)] # {}
    /\ DOMAIN finalFiles[Peer(out.self)] # {}

\* ---------------------------------------------- claims on the read path

\* The step that has just been taken handled, at observer o, a response
\* matched to a read request for a file id of o's registry.
TrackedReadResponseStep(o) ==
    /\ o = out'.self
    /\ IsIOResponse(out'.pdu)
    /\ out'.pdu.completionId \in DOMAIN completionIdInProgress[o]
    /\ completionIdInProgress[o][out'.pdu.completionId].type = "DeviceReadRequestPDU"
    /\ completionIdInProgress[o][out'.pdu.completionId].fileId \in DOMAIN openedFiles[o]

\* The read request of that step, the key of its file's buffer, the buffer
\* before the step (empty when there was none) and the bytes of the response.
StepRequest(o) == completionIdInProgress[o][out'.pdu.completionId]
StepKey(o) == bytesToPath(openedFiles[o][StepRequest(o).fileId])
StepOldBuffer(o) ==
    IF StepKey(o) \in DOMAIN finalFiles[o] THEN finalFiles[o][StepKey(o)] ELSE <<>>
StepData == parseReadResponse(out'.pdu).readData

\* new has the bytes d at off .. off+Len(d)-1 and the bytes of old elsewhere.
RangeWritten(old, new, off, d) ==
    /\ \A i \in 1..Len(d) : off + i <= Len(new) /\ new[off + i] = d[i]
    /\ \A i \in 1..Len(old) :
           (i <= off \/ i > off + Len(d)) => (i <= Len(new) /\ new[i] = old[i])

\* The step touched no buffer of o but the one of key, and none of o's peer.
OnlyBufferOf(o, key) ==
    /\ DOMAIN finalFiles'[o] = (DOMAIN finalFiles[o]) \cup {key}
    /\ \A k \in (DOMAIN finalFiles[o]) \ {key} : finalFiles'[o][k] = finalFiles[o][k]
    /\ finalFiles'[Peer(o)] = finalFiles[Peer(o)]

\* C13 (as claimed): a read response with bytes d for a read request with
\* offset off on a tracked file leaves the file's buffer present, with d at
\* off .. off+Len(d)-1, its other bytes unchanged and its length the larger
\* of the old length and off+Len(d); no other buffer changes.
C13_ReadResponseWritesRange ==
    [][\A o \in Observers :
          TrackedReadResponseStep(o)
          => /\ OnlyBufferOf(o, StepKey(o))
             /\ RangeWritten(StepOldBuffer(o), finalFiles'[o][StepKey(o)],
                             StepRequest(o).offset, StepData)
             /\ Len(finalFiles'[o][StepKey(o)])
                    = Max(Len(StepOldBuffer(o)), StepRequest(o).offset + Len(StepData))]_vars

\* C13 (amended): as above when d is not empty, the bytes between the old end
\* and off being zero; when d is empty the buffer keeps its old bytes and its
\* old length, even when off is past the end, and is created empty when there
\* was none.
C13_NonEmptyReadResponseWritesRange ==
    [][\A o \in Observers :
          TrackedReadResponseStep(o)
          => /\ OnlyBufferOf(o, StepKey(o))
             /\ IF StepData = <<>>
                THEN finalFiles'[o][StepKey(o)] = StepOldBuffer(o)
                ELSE /\ RangeWritten(StepOldBuffer(o), finalFiles'[o][StepKey(o)],
                                     StepRequest(o).offset, StepData)
                     /\ Len(finalFiles'[o][StepKey(o)])
                            = Max(Len(StepOldBuffer(o)),
                                  StepRequest(o).offset + Len(StepData))
                     /\ \A i \in (Len(StepOldBuffer(o)) + 1)..StepRequest(o).offset :
                            finalFiles'[o][StepKey(o)][i] = 0]_vars

\* C13 witness: a read response has written its byte at offset 1 of a buffer
\* that was empty or absent, while another path has a buffer with bytes in it.
C13_Witness ==
    /\ IsIOResponse(out.pdu)
    /\ out.requestPDU.type = "DeviceReadRequestPDU"
    /\ out.fault = "none"
    /\ out.requestPDU.offset = 1
    /\ Len(out.pdu.payload) = 2
    /\ out.requestPDU.fileId \in DOMAIN openedFiles[out.self]
    /\ \E key \in DOMAIN finalFiles[out.self] :
           /\ key = bytesToPath(openedFiles[out.self][out.requestPDU.fileId])
           /\ Len(finalFiles[out.self][key]) = 2
           /\ finalFiles[out.self][key][1] = 0
           /\ finalFiles[out.self][key][2] = out.pdu.payload[2]
           /\ \E other \in (DOMAIN finalFiles[out.self]) \ {key} :
                  finalFiles[out.self][other] # <<>>

\* ------------------------------------------ claims on a reopened path

\* The second transfer is over, and it was of a path whose buffer the first
\* transfer had left behind.
ReopenedAndClosed ==
    /\ xfer.phase = "done"
    /\ "reopenedAfter" \in DOMAIN xfer
    /\ bytesToPath(xfer.path) \in DOMAIN xfer.closed

\* The buffer the first transfer left for the path of the second one, and
\* the read of the second transfer.
FirstTransferBytes == xfer.closed[bytesToPath(xfer.path)]
SecondRead == xfer.plan[Len(xfer.plan)]

\* Every file written by the last call has the bytes of the first transfer
\* wherever the read of the second transfer did not write.
SecondCloseKeepsFirstBytes ==
    ReopenedAndClosed
    => \A a \in AttemptsOf(out) :
           a.ok => \A i \in 1..Len(FirstTransferBytes) :
                       (i <= SecondRead.offset \/ i > SecondRead.offset + SecondRead.length)
                       => (i <= Len(a.data) /\ a.data[i] = FirstTransferBytes[i])

C15_UntrackedFileIdIsInvisible ==
    [][("untracked" \in DOMAIN xfer /\ xfer.phase \in {"open", "closing"})
       => (/\ finalFiles' = finalFiles
           /\ openedFiles' = openedFiles
           /\ out'.disk = <<>>)]_vars

\* ------------------------------------------- claims on the response status

\* What a call did, the diagnostics and the status field of what it sent
\* left aside.
EffectOf(m) ==
    [cip |-> m.cip, opened |-> m.opened, final |-> m.final, disk |-> m.disk,
     fault |-> m.fault,
     sent |-> [i \in DOMAIN m.sent |->
                  [to |-> m.sent[i].to,
                   pdu |-> [m.sent[i].pdu EXCEPT !.ioStatus = StatusSuccessHigh]]]]

\* C16: in every reachable state, a response matched in the table of the
\* observer that receives it has with an error status the effect it has with
\* the success status (table, registry, buffers, disk attempts, fault and
\* forwarded message), and its diagnostics are the warning followed by the
\* diagnostics of the success case.
C16_ErrorStatusHandledAsSuccess ==
    \A self \in Observers : \A c \in DOMAIN completionIdInProgress[self] :
        \A pl \in ResponsePayloads, fs \in FsAnswers :
            /\ IsErrorStatus(StatusUnsuccessfulHigh)
            /\ ~IsErrorStatus(StatusSuccessHigh)
            /\ EffectOf(onPDUReceived(self, IOResponse(c, StatusUnsuccessfulHigh, pl), fs))
                   = EffectOf(onPDUReceived(self, IOResponse(c, StatusSuccessHigh, pl), fs))
            /\ onPDUReceived(self, IOResponse(c, StatusUnsuccessfulHigh, pl), fs).log
                   = <<"warning:ErrorStatus">>
                       \o onPDUReceived(self, IOResponse(c, StatusSuccessHigh, pl), fs).log

\* C16 witness: a create response with an error status, matched to a create
\* request for read access to a non-directory file, has registered its file
\* id and has been forwarded.
C16_Witness ==
    /\ IsIOResponse(out.pdu)
    /\ IsErrorStatus(out.pdu.ioStatus)
    /\ AsksReadOfFile(out.requestPDU)
    /\ out.log = <<"warning:ErrorStatus", "info:Opening">>
    /\ out.pdu.payload[1] \in DOMAIN openedFiles[out.self]
    /\ openedFiles[out.self][out.pdu.payload[1]] = out.requestPDU.path
    /\ Len(out.sent) = 1

\* ------------------------------------------ claims on reused completion ids

\* C17 (as claimed): a request recorded under a completion id that a request
\* in flight has replaces that request in the table, which has no other new
\* entry; the next response with the id is dispatched on the later request;
\* one more response with the id is reported as an unknown completion id.
C17_LaterRequestReplacesEarlier ==
    [][/\ (xfer.phase = "open" /\ xfer'.phase = "reusing")
          => /\ xfer'.reuse.id \in DOMAIN completionIdInProgress[Responder]
             /\ completionIdInProgress'[Responder]
                    = Put(completionIdInProgress[Responder], xfer'.reuse.id, xfer'.reuse.later)
             /\ DOMAIN completionIdInProgress'[Responder]
                    = DOMAIN completionIdInProgress[Responder]
       /\ (xfer.phase = "reusing" /\ xfer.reuse.answers = 0)
          => out'.requestPDU = xfer.reuse.later
       /\ (xfer.phase = "reusing" /\ xfer.reuse.answers = 1)
          => /\ out'.log = <<"error:UnknownCompletionId">>
             /\ out'.requestPDU = BlankPDU]_vars

\* --------------------------------------- claims on requests and responses

\* The kind of request the device is answering in each phase of a transfer.
AwaitedType ==
    IF xfer.phase = "creating" THEN "DeviceCreateRequestPDU"
    ELSE IF xfer.phase = "closing" THEN "DeviceCloseRequestPDU"
    ELSE "DeviceReadRequestPDU"

\* C18: a request that has been handed to the peer's send path is in the
\* peer's table under its completion id; and, the requester taking no
\* completion id that is in flight, every response of the device to a request
\* in flight finds that request under its completion id in the table of the
\* observer that receives it, and is not reported as unknown.
C18_ForwardedRequestIsFound ==
    [][/\ (IsIORequest(out'.pdu) /\ out'.sent # <<>>)
          => /\ IsForwarded(out', out'.pdu)
             /\ out'.pdu.completionId \in DOMAIN completionIdInProgress'[Peer(out'.self)]
             /\ completionIdInProgress'[Peer(out'.self)][out'.pdu.completionId] = out'.pdu
             /\ out'.pdu.completionId \notin DOMAIN xfer.pending
       /\ (IsIOResponse(out'.pdu) /\ out'.pdu.completionId \in DOMAIN xfer.pending)
          => /\ out'.pdu.completionId \in DOMAIN completionIdInProgress[out'.self]
             /\ completionIdInProgress[out'.self][out'.pdu.completionId].type = AwaitedType
             /\ out'.requestPDU = completionIdInProgress[out'.self][out'.pdu.completionId]
             /\ \A i \in DOMAIN out'.log : out'.log[i] # "error:UnknownCompletionId"]_vars

\* C18 witness: during the second transfer a read response has found its
\* request while the table still held the completion id of the first
\* transfer's close, whose response had raised.
C18_Witness ==
    /\ "reopenedAfter" \in DOMAIN xfer
    /\ xfer.phase = "open"
    /\ IsIOResponse(out.pdu)
    /\ out.requestPDU.type = "DeviceReadRequestPDU"
    /\ out.requestPDU.completionId = out.pdu.completionId
    /\ out.fault = "none"
    /\ \E c \in DOMAIN completionIdInProgress[out.self] :
           completionIdInProgress[out.self][c].type = "DeviceCloseRequestPDU"

\* ------------------------------------------ claims on two file ids, one path

\* The bytes of the first n answered reads of the transfer, written in the
\* order of their responses, whatever file id each was asked under.
RECURSIVE BytesReadThrough(_)
BytesReadThrough(n) ==
    IF n = 0 THEN <<>>
    ELSE WriteAt(BytesReadThrough(n - 1), xfer.plan[xfer.answered[n]].offset,
                 Chunk(xfer.answered[n], xfer.plan[xfer.answered[n]].length))

\* The second file id has been registered and not yet closed.
BothRegistered ==
    /\ "first" \in DOMAIN xfer
    /\ xfer.phase \in {"open", "closing"}

\* The second file id has been closed.
SecondHandleClosed ==
    /\ "first" \in DOMAIN xfer
    /\ xfer.phase = "done"

\* C19: while two file ids are registered for one path the registry maps
\* both to it and there is one buffer, under the normalized path, holding
\* the bytes of the reads answered under either file id; the close response
\* of the second file id makes one disk attempt, at the local path of that
\* path, with the buffer's bytes, leaves the first file id registered and,
\* when the write succeeds, removes the second one.
C19_OneBufferPerPath ==
    /\ DOMAIN finalFiles[Responder] \subseteq {bytesToPath(xfer.path)}
    /\ xfer.answered # <<>>
       => /\ bytesToPath(xfer.path) \in DOMAIN finalFiles[Responder]
          /\ finalFiles[Responder][bytesToPath(xfer.path)]
                 = BytesReadThrough(Len(xfer.answered))
    /\ BothRegistered
       => /\ {xfer.first, xfer.fileId} \subseteq DOMAIN openedFiles[Responder]
          /\ xfer.first # xfer.fileId
          /\ openedFiles[Responder][xfer.first] = xfer.path
          /\ openedFiles[Responder][xfer.fileId] = xfer.path
    /\ SecondHandleClosed
       => /\ Len(out.disk) = 1
          /\ out.disk[1].path = goodPath(bytesToPath(xfer.path))
          /\ out.disk[1].data = BytesReadThrough(Len(xfer.answered))
          /\ xfer.first \in DOMAIN openedFiles[Responder]
          /\ openedFiles[Responder][xfer.first] = xfer.path
          /\ out.disk[1].ok => xfer.fileId \notin DOMAIN openedFiles[Responder]

\* C19 witness: the close response of the second file id has written a file
\* holding a byte read under the first file id and a byte read under the
\* second one, and the first file id is still registered.
C19_Witness ==
    /\ SecondHandleClosed
    /\ Len(out.disk) = 1
    /\ out.disk[1].ok
    /\ xfer.first \in DOMAIN openedFiles[Responder]
    /\ \E i, j \in DOMAIN out.disk[1].data :
           /\ \E k \in 1..(Len(xfer.plan) - 1) : out.disk[1].data[i] = Chunk(k, 1)[1]
           /\ out.disk[1].data[j] = Chunk(Len(xfer.plan), 1)[1]

====
